---- MODULE Spec2Model ----
(***************************************************************************)
(* Model of mandelbrot_animation.py: MandelbrotHandler.get drives          *)
(* build_animated_gif, which pulls frames lazily from the generator        *)
(* generate_mandelbrot_animation; the generator renders the frames either  *)
(* through a ThreadPoolExecutor(max_workers=5) or sequentially.            *)
(*                                                                         *)
(* z0 values are integers here; an image is the record of the mode it is   *)
(* in and the seed it was rendered from.                                   *)
(***************************************************************************)
EXTENDS Integers, Sequences, FiniteSets

\* ------------------------------------------------------------------ bounds
MaxEnd == 6      \* end_z0 ranges over -MaxStep .. MaxEnd
MaxStep == 2     \* step_z0 ranges over 1 .. MaxStep
MaxBad == 2      \* at most this many seeds whose render raises
MaxSeed == 3     \* the kernel is run for seeds z0 in -MaxSeed .. MaxSeed
MaxIter == 5     \* and for iterations in 0 .. MaxIter
FloatMax == 1000 \* stand-in for the largest finite double: beyond it, inf

\* --------------------------------------------------------------- constants
max_workers == 5   \* ThreadPoolExecutor(max_workers=5)
delay_ms == 100    \* delay=0.1 (seconds), in milliseconds

VARIABLES
    start_z0, end_z0, step_z0,  \* request parameters of the sweep
    iterations,   \* request parameter "iterations"
    px,           \* draw_mandelbrot followed on one grid point
    futures,      \* TRUE iff "from concurrent import futures" succeeded
    bad,          \* the seeds for which draw_mandelbrot raises
    hpc,          \* MandelbrotHandler.get: "get", "header", "build", "done", "raised"
    contentType,  \* self.response.headers['Content-Type']
    out,          \* self.response.out: the blocks written so far
    epc,          \* build_animated_gif: where the encoder is
    image,        \* build_animated_gif's local "image" (the first frame)
    im,           \* build_animated_gif's loop variable "im"
    raw,          \* the local "image" of the generator expression of line 44
    gen,          \* the generator: "none", "created", "submitting", "waiting",
                  \* "suspended", "exiting", "finished"
    gexit,        \* why the generator left its body: "", "stop", "error", "closed"
    z0s,          \* numpy.arange(...) of line 103
    yielded,      \* the images the generator has yielded, in order
    executor,     \* "none", "open", "shutdown"
    fs,           \* executor.map's list of futures: the state of each
    qhead,        \* index in fs of the next work item in the work queue
    threads       \* worker threads alive

vars == <<start_z0, end_z0, step_z0, iterations, px, futures, bad, hpc, contentType, out, epc,
          image, im, raw, gen, gexit, z0s, yielded, executor, fs, qhead, threads>>

params == <<start_z0, end_z0, step_z0, iterations, px, futures, bad>>
respVars == <<contentType, out>>
encVars == <<epc, image, im, raw>>
poolVars == <<executor, fs, qhead, threads>>

None == [mode |-> "None", z0 |-> 0]

\* ------------------------------------------------------------ pure helpers

\* numpy.arange(start, stop, step) for step > 0: ceil((stop-start)/step) values
ArangeLen(start, stop, step) ==
    IF stop <= start THEN 0 ELSE (stop - start + step - 1) \div step

Arange(start, stop, step) ==
    [k \in 1..ArangeLen(start, stop, step) |-> start + (k - 1) * step]

\* draw_mandelbrot: Image.fromarray of a float array is a mode "F" image
draw_mandelbrot(z0) == [mode |-> "F", z0 |-> z0]

\* image.convert('P') returns a new palette image of the same picture
convert(img) == [mode |-> "P", z0 |-> img.z0]

\* ---------------------------------------------- floating point, as numpy's

\* a double: finite (an integer here), an infinity (v its sign), or NaN
Fin(n) == [k |-> "fin", v |-> n]
PInf == [k |-> "inf", v |-> 1]
NInf == [k |-> "inf", v |-> 0 - 1]
NaN == [k |-> "nan", v |-> 0]

\* a result too large for a double overflows to an infinity
Norm(n) == IF n > FloatMax THEN PInf ELSE IF n < 0 - FloatMax THEN NInf ELSE Fin(n)

XNeg(a) == IF a.k = "nan" THEN NaN ELSE [k |-> a.k, v |-> 0 - a.v]

XMul(a, b) ==
    IF a.k = "nan" \/ b.k = "nan" THEN NaN
    ELSE IF a.k = "inf" \/ b.k = "inf"
         THEN IF a.v = 0 \/ b.v = 0 THEN NaN
              ELSE IF (a.v > 0) = (b.v > 0) THEN PInf ELSE NInf
    ELSE Norm(a.v * b.v)

XAdd(a, b) ==
    IF a.k = "nan" \/ b.k = "nan" THEN NaN
    ELSE IF a.k = "inf" /\ b.k = "inf" THEN (IF a.v = b.v THEN a ELSE NaN)
    ELSE IF a.k = "inf" THEN a
    ELSE IF b.k = "inf" THEN b
    ELSE Norm(a.v + b.v)

XSub(a, b) == XAdd(a, XNeg(b))

Complex(x, y) == [re |-> x, im |-> y]

\* line 92, z *= z, and line 93, z += c, on one element
CMul(a, b) ==
    Complex(XSub(XMul(a.re, b.re), XMul(a.im, b.im)),
            XAdd(XMul(a.re, b.im), XMul(a.im, b.re)))
CAdd(a, b) == Complex(XAdd(a.re, b.re), XAdd(a.im, b.im))

\* ceil(log2(log10(1 + m))) for a finite m > 0 given as its square m2: the
\* least e with 1 + m <= 10^(2^e); the squares of 10^(2^e) - 1 for e = 0, 1, 2,
\* and m <= sqrt(10) - 1 iff m2 <= 4
LogSteps == <<81, 9801, 99980001>>
CeilLog2Log10(m2) ==
    IF m2 <= 4 THEN 0 - 1
    ELSE IF \E e \in 1..Len(LogSteps) : m2 <= LogSteps[e]
         THEN (CHOOSE e \in 1..Len(LogSteps) :
                  /\ m2 <= LogSteps[e]
                  /\ \A d \in 1..(e - 1) : m2 > LogSteps[d]) - 1
         ELSE Len(LogSteps)

\* numpy.floor(iterations - numpy.log2(numpy.log10(1 + abs(z)))) of line 95:
\* abs is inf if a part is, else NaN if a part is; log2(log10(1)) is -inf
EscapeFloor(n, z) ==
    IF z.re.k = "inf" \/ z.im.k = "inf" THEN NInf
    ELSE IF z.re.k = "nan" \/ z.im.k = "nan" THEN NaN
    ELSE IF z.re.v = 0 /\ z.im.v = 0 THEN PInf
    ELSE Fin(n - CeilLog2Log10(z.re.v * z.re.v + z.im.v * z.im.v))

\* line 94: 255 * ... / iterations, a float division (x/0 is an infinity, 0/0
\* NaN); a finite value is kept as the fraction num/den
Value(k, num, den) == [k |-> k, num |-> num, den |-> den]
Scale(f, n) ==
    IF f.k = "nan" THEN Value("nan", 0, 1)
    ELSE IF f.k = "inf" THEN Value("inf", f.v, 1)
    ELSE IF n = 0
         THEN IF f.v = 0 THEN Value("nan", 0, 1)
              ELSE Value("inf", IF f.v > 0 THEN 1 ELSE 0 - 1, 1)
    ELSE Value("fin", 255 * f.v, n)

\* a future of executor.map's list: its state, the seed it was submitted with,
\* and, once finished, its result or the fact that fn raised
Future(st, z, r, e) == [state |-> st, z0 |-> z, res |-> r, exc |-> e]

Running == {i \in 1..Len(fs) : fs[i].state = "RUNNING"}

\* Future.cancel() on every future of the list: only a pending one is cancelled
CancelAll(list) ==
    [j \in 1..Len(list) |->
        IF list[j].state = "PENDING"
        THEN [list[j] EXCEPT !.state = "CANCELLED"]
        ELSE list[j]]

\* the block records written to the stream
Blk(name) == [blk |-> name]
DataBlk(img) == [blk |-> "DATA", im |-> img]

\* struct.pack('<H', n): two bytes, low byte first
Pack16(n) == <<n % 256, (n \div 256) % 256>>

\* int(round(delay*100)) for a delay given in milliseconds
Centiseconds(ms) == (ms + 5) \div 10

\* GraphicControlBytes with a packed byte of zero
GraphicControlBytesPlain ==
    <<33, 249, 4>> \o <<0>> \o Pack16(Centiseconds(delay_ms)) \o <<0, 0>>

\* lines 67-70: '\x21\xF9\x04', '\x08', the delay, '\x00\x00'
GraphicControlBytes ==
    <<33, 249, 4>> \o <<8>> \o Pack16(Centiseconds(delay_ms)) \o <<0, 0>>

\* the bytes of "NETSCAPE2.0"
Netscape == <<78, 69, 84, 83, 67, 65, 80, 69, 50, 46, 48>>

\* ApplicationExtensionBytes with a loop count of zero
ApplicationExtensionBytesLoopZero ==
    <<33, 255, 11>> \o Netscape \o <<3, 1>> \o Pack16(0) \o <<0>>

\* lines 59-63: '\x21\xFF\x0B', "NETSCAPE2.0", '\x03\x01', 2**16-1, '\x00'
ApplicationExtensionBytes ==
    <<33, 255, 11>> \o Netscape \o <<3, 1>> \o Pack16(65535) \o <<0>>

GceBlk == [blk |-> "GCE", bytes |-> GraphicControlBytes]
AppExtBlk == [blk |-> "NETSCAPE2.0", bytes |-> ApplicationExtensionBytes]

\* -------------------------------------------------------------------- Init

\* the grid point followed through draw_mandelbrot: its seed, its c, and
\* nothing computed yet
Pixel(z0, c) ==
    [pc |-> "seed", z0 |-> z0, c |-> c, z |-> c, n |-> 0, value |-> Value("nan", 0, 1)]

\* before the request is handled: nothing declared, written, pulled or started
Idle ==
    /\ hpc = "get"
    /\ contentType = "text/html"
    /\ out = <<>>
    /\ epc = "idle"
    /\ image = None
    /\ im = None
    /\ raw = None
    /\ gen = "none"
    /\ gexit = ""
    /\ z0s = <<>>
    /\ yielded = <<>>
    /\ executor = "none"
    /\ fs = <<>>
    /\ qhead = 1
    /\ threads = 0

Init ==
    /\ start_z0 = 0
    /\ step_z0 \in 1..MaxStep
    /\ end_z0 \in (0 - MaxStep)..MaxEnd
    /\ iterations = 10
    /\ px = Pixel(0, Complex(Fin(0), Fin(0)))
    /\ futures \in BOOLEAN
    /\ bad \in {b \in SUBSET {start_z0 + k * step_z0 : k \in 0..(MaxEnd + 1)} :
                  /\ Cardinality(b) <= MaxBad
                  /\ \A z \in b : z < end_z0 + step_z0}
    /\ Idle

\* ------------------------------------------------- MandelbrotHandler.get

\* GetCallGenerate as the call of an ordinary function would be: line 103
\* and line 109 run at the call
GetCallGenerateEager ==
    /\ hpc = "get"
    /\ hpc' = "header"
    /\ z0s' = Arange(start_z0, end_z0 + step_z0, step_z0)
    /\ IF futures
       THEN /\ executor' = "open"
            /\ gen' = IF Len(z0s') > 0 THEN "submitting" ELSE "waiting"
       ELSE /\ executor' = executor
            /\ gen' = "waiting"
    /\ UNCHANGED <<params, respVars, encVars, gexit, yielded, fs, qhead, threads>>

\* lines 138-140: calling a generator function runs none of its body
GetCallGenerate ==
    /\ hpc = "get"
    /\ hpc' = "header"
    /\ gen' = "created"
    /\ UNCHANGED <<params, respVars, encVars, gexit, z0s, yielded, poolVars>>

\* line 141, then the call of line 142 enters build_animated_gif
GetSetContentType ==
    /\ hpc = "header"
    /\ hpc' = "build"
    /\ contentType' = "image/gif"
    /\ epc' = "pull"
    /\ UNCHANGED <<params, out, image, im, raw, gen, gexit, z0s, yielded, poolVars>>

\* ------------------------------------------- what a pull hands the encoder

\* Receive as "images = list(images)" before line 45 would behave at the
\* first frame: the encoder pulls again before it writes anything
ReceivePrefetch(img) ==
    /\ raw' = img
    /\ IF image = None
       THEN /\ image' = convert(img)
            /\ im' = im
            /\ epc' = "pull"
       ELSE /\ im' = convert(img)
            /\ image' = image
            /\ epc' = "gce"
    /\ hpc' = hpc

\* the generator yields img: the generator expression of line 44 converts it,
\* and it becomes "image" (line 45) or the loop variable "im" (line 65)
Receive(img) ==
    /\ raw' = img
    /\ IF image = None
       THEN /\ image' = convert(img)
            /\ im' = im
            /\ epc' = "sig"
       ELSE /\ im' = convert(img)
            /\ image' = image
            /\ epc' = "gce"
    /\ hpc' = hpc

\* EndOfFrames with the first pull defaulted instead of raising
EndOfFramesDefaulted ==
    /\ epc' = "trailer"
    /\ hpc' = hpc
    /\ UNCHANGED <<image, im, raw>>

\* the generator is exhausted: images.next() of line 45 raises StopIteration,
\* the for loop of line 65 ends
EndOfFrames ==
    /\ IF image = None
       THEN epc' = "raised" /\ hpc' = "raised"
       ELSE epc' = "trailer" /\ hpc' = hpc
    /\ UNCHANGED <<image, im, raw>>

\* PullRaises with the exception swallowed and the file closed off
PullRaisesSwallowed ==
    /\ epc' = "trailer"
    /\ hpc' = hpc
    /\ UNCHANGED <<image, im, raw>>

\* the pull raises the render's exception through build_animated_gif and get
PullRaises ==
    /\ epc' = "raised"
    /\ hpc' = "raised"
    /\ UNCHANGED <<image, im, raw>>

\* ------------------------------------------ generate_mandelbrot_animation

\* GenStart as "return executor.map(fn, z0s)" inside the with block would be
\* with a map that submits lazily: the with block is left before any submit
GenStartLeavesWith ==
    /\ gen = "created"
    /\ epc = "pull"
    /\ z0s' = Arange(start_z0, end_z0 + step_z0, step_z0)
    /\ IF futures
       THEN /\ executor' = "shutdown"
            /\ gen' = IF Len(z0s') > 0 THEN "submitting" ELSE "waiting"
       ELSE /\ executor' = executor
            /\ gen' = "waiting"
    /\ UNCHANGED <<params, hpc, respVars, encVars, gexit, yielded, fs, qhead, threads>>

\* first next(): line 103, then line 109 (the pool) or line 117
GenStart ==
    /\ gen = "created"
    /\ epc = "pull"
    /\ z0s' = Arange(start_z0, end_z0 + step_z0, step_z0)
    /\ IF futures
       THEN /\ executor' = "open"
            /\ gen' = IF Len(z0s') > 0 THEN "submitting" ELSE "waiting"
       ELSE /\ executor' = executor
            /\ gen' = "waiting"
    /\ UNCHANGED <<params, hpc, respVars, encVars, gexit, yielded, fs, qhead, threads>>

\* the seed executor.map submits next: the seeds in the order of z0s
SubmitArg == z0s[Len(fs) + 1]

\* Submit with _adjust_thread_count left out: no worker thread is ever started
SubmitNoThread ==
    /\ gen = "submitting"
    /\ Len(fs) < Len(z0s)
    /\ IF executor = "open"
       THEN /\ fs' = Append(fs, Future("PENDING", SubmitArg, None, FALSE))
            /\ threads' = threads
            /\ gen' = IF Len(fs') = Len(z0s) THEN "waiting" ELSE "submitting"
            /\ UNCHANGED <<hpc, encVars, gexit>>
       ELSE /\ gen' = "finished"
            /\ gexit' = "error"
            /\ PullRaises
            /\ UNCHANGED <<fs, threads>>
    /\ UNCHANGED <<params, respVars, z0s, yielded, executor, qhead>>

\* executor.map(fn, z0s) submits one work item per seed before any result is
\* asked for; submit starts a new thread while fewer than max_workers exist
\* (on an executor already shut down submit raises RuntimeError instead)
Submit ==
    /\ gen = "submitting"
    /\ Len(fs) < Len(z0s)
    /\ IF executor = "open"
       THEN /\ fs' = Append(fs, Future("PENDING", SubmitArg, None, FALSE))
            /\ threads' = IF threads < max_workers THEN threads + 1 ELSE threads
            /\ gen' = IF Len(fs') = Len(z0s) THEN "waiting" ELSE "submitting"
            /\ UNCHANGED <<hpc, encVars, gexit>>
       ELSE /\ gen' = "finished"
            /\ gexit' = "error"
            /\ PullRaises
            /\ UNCHANGED <<fs, threads>>
    /\ UNCHANGED <<params, respVars, z0s, yielded, executor, qhead>>

\* the consumer is inside next() and the generator is in its loop: it has
\* submitted everything, or is resumed from its yield
Pulled == epc = "pull" /\ gen \in {"waiting", "suspended"}

\* MapNext as a loop over the futures as they complete would choose
MapNextAsCompleted ==
    LET ready == {i \in 1..Len(fs) :
                    /\ fs[i].state = "FINISHED"
                    /\ \A k \in 1..Len(yielded) : yielded[k] # fs[i].res}
    IN IF ready = {} THEN Len(yielded) + 1
       ELSE CHOOSE i \in ready : \A j \in ready : j <= i

\* the future whose result the iterator of executor.map waits for next:
\* "for future in fs", the list order
MapNext == Len(yielded) + 1

\* line 114-115: future.result() returns, the image is yielded
GenYield ==
    /\ Pulled
    /\ futures
    /\ Len(yielded) < Len(fs)
    /\ fs[MapNext].state = "FINISHED"
    /\ ~fs[MapNext].exc
    /\ yielded' = Append(yielded, fs[MapNext].res)
    /\ gen' = "suspended"
    /\ Receive(fs[MapNext].res)
    /\ UNCHANGED <<params, respVars, gexit, z0s, poolVars>>

\* with-block exit: ThreadPoolExecutor.__exit__ is shutdown(wait=True)
Shutdown(list) ==
    /\ fs' = list
    /\ executor' = "shutdown"
    /\ gen' = "exiting"
    /\ UNCHANGED <<qhead, threads>>

\* GenRaise failing as soon as any worker has raised
GenRaiseEager ==
    /\ Pulled
    /\ futures
    /\ Len(yielded) < Len(fs)
    /\ \E j \in 1..Len(fs) : fs[j].state = "FINISHED" /\ fs[j].exc
    /\ gexit' = "error"
    /\ Shutdown(CancelAll(fs))
    /\ UNCHANGED <<params, hpc, respVars, encVars, z0s, yielded>>

\* line 114: future.result() raises fn's exception; the iterator's finally
\* cancels the futures, then the with block is left
GenRaise ==
    /\ Pulled
    /\ futures
    /\ Len(yielded) < Len(fs)
    /\ fs[MapNext].state = "FINISHED"
    /\ fs[MapNext].exc
    /\ gexit' = "error"
    /\ Shutdown(CancelAll(fs))
    /\ UNCHANGED <<params, hpc, respVars, encVars, z0s, yielded>>

\* line 114: the iterator of executor.map is exhausted, the with block is left
GenExhaust ==
    /\ Pulled
    /\ futures
    /\ Len(yielded) = Len(fs)
    /\ gexit' = "stop"
    /\ Shutdown(CancelAll(fs))
    /\ UNCHANGED <<params, hpc, respVars, encVars, z0s, yielded>>

\* Joined as shutdown(wait=False) would have it
JoinedNoWait == TRUE

\* shutdown(wait=True) returns only when every worker thread is joined
Joined == threads = 0

\* the with block is left for good: the generator ends and the pending
\* StopIteration or exception reaches whoever pulled
GenJoined ==
    /\ gen = "exiting"
    /\ Joined
    /\ gen' = "finished"
    /\ CASE gexit = "stop" -> EndOfFrames
         [] gexit = "error" -> PullRaises
         [] OTHER -> UNCHANGED <<hpc, encVars>>
    /\ UNCHANGED <<params, respVars, gexit, z0s, yielded, poolVars>>

\* line 117-118: itertools.imap evaluates fn on the next seed when pulled
SeqYield ==
    /\ Pulled
    /\ ~futures
    /\ Len(yielded) < Len(z0s)
    /\ z0s[Len(yielded) + 1] \notin bad
    /\ yielded' = Append(yielded, draw_mandelbrot(z0s[Len(yielded) + 1]))
    /\ gen' = "suspended"
    /\ Receive(draw_mandelbrot(z0s[Len(yielded) + 1]))
    /\ UNCHANGED <<params, respVars, gexit, z0s, poolVars>>

\* line 117: fn raises inside imap
SeqRaise ==
    /\ Pulled
    /\ ~futures
    /\ Len(yielded) < Len(z0s)
    /\ z0s[Len(yielded) + 1] \in bad
    /\ gen' = "finished"
    /\ gexit' = "error"
    /\ PullRaises
    /\ UNCHANGED <<params, respVars, z0s, yielded, poolVars>>

\* line 117: imap is exhausted
SeqExhaust ==
    /\ Pulled
    /\ ~futures
    /\ Len(yielded) = Len(z0s)
    /\ gen' = "finished"
    /\ gexit' = "stop"
    /\ EndOfFrames
    /\ UNCHANGED <<params, respVars, z0s, yielded, poolVars>>

\* the consumer stopped pulling: the suspended generator is finalized, which
\* throws GeneratorExit at the yield of line 115 (or 118). Whether the
\* iterator of executor.map is finalized first (cancelling the pending
\* futures) depends on the interpreter's reference handling.
CloseGenerator ==
    /\ gen = "suspended"
    /\ epc = "raised"
    /\ gexit' = "closed"
    /\ IF futures
       THEN \E cancel \in BOOLEAN :
                Shutdown(IF cancel THEN CancelAll(fs) ELSE fs)
       ELSE /\ gen' = "finished"
            /\ UNCHANGED poolVars
    /\ UNCHANGED <<params, hpc, respVars, encVars, z0s, yielded>>

\* ------------------------------------------------- the pool's worker threads

\* _worker: take the next work item; a cancelled one is dropped, any other
\* starts running
WorkerTake ==
    /\ executor # "none"
    /\ qhead <= Len(fs)
    /\ Cardinality(Running) < threads
    /\ qhead' = qhead + 1
    /\ fs' = IF fs[qhead].state = "PENDING"
             THEN [fs EXCEPT ![qhead].state = "RUNNING"]
             ELSE fs
    /\ UNCHANGED <<params, hpc, respVars, encVars, gen, gexit, z0s, yielded,
                   executor, threads>>

\* RunWorkItem with the exception lost in the worker thread
RunWorkItemNoRaise(f) == Future("FINISHED", f.z0, draw_mandelbrot(f.z0), FALSE)

\* fn(z0) as the work item runs it: the image, or the exception it raised
RunWorkItem(f) ==
    IF f.z0 \in bad
    THEN Future("FINISHED", f.z0, None, TRUE)
    ELSE Future("FINISHED", f.z0, draw_mandelbrot(f.z0), FALSE)

\* _WorkItem.run finishes: the result or the exception is set on the future
WorkerFinish(i) ==
    /\ fs[i].state = "RUNNING"
    /\ fs' = [fs EXCEPT ![i] = RunWorkItem(fs[i])]
    /\ UNCHANGED <<params, hpc, respVars, encVars, gen, gexit, z0s, yielded,
                   executor, qhead, threads>>

\* _worker: an idle thread that finds the queue drained after shutdown returns
WorkerExit ==
    /\ executor = "shutdown"
    /\ qhead > Len(fs)
    /\ threads > Cardinality(Running)
    /\ threads' = threads - 1
    /\ UNCHANGED <<params, hpc, respVars, encVars, gen, gexit, z0s, yielded,
                   executor, fs, qhead>>

\* ------------------------------------------------------ build_animated_gif

\* stream.write of one block, then the next statement
Write(at, block, next) ==
    /\ hpc = "build"
    /\ epc = at
    /\ out' = Append(out, block)
    /\ epc' = next
    /\ UNCHANGED <<params, contentType, gen, gexit, z0s, yielded, poolVars>>

\* line 48
WriteSignature ==
    /\ Write("sig", Blk("GIF89a"), "lsd")
    /\ UNCHANGED <<hpc, image, im, raw>>

\* lines 51-53: the size of the first image and the flags
WriteScreenDescriptor ==
    /\ Write("lsd", Blk("LSD"), "palette")
    /\ UNCHANGED <<hpc, image, im, raw>>

\* line 56: the palette of the first image
WritePalette ==
    /\ Write("palette", [blk |-> "GCT", im |-> image], "appext")
    /\ UNCHANGED <<hpc, image, im, raw>>

\* WriteApplicationExtension followed by "for im in images": the frame
\* already pulled is not encoded
WriteApplicationExtensionSkipsFirst ==
    /\ Write("appext", AppExtBlk, "pull")
    /\ UNCHANGED <<hpc, image, im, raw>>

\* lines 59-63, then line 65: chain([image], images) hands out image first
WriteApplicationExtension ==
    /\ Write("appext", AppExtBlk, "gce")
    /\ im' = image
    /\ UNCHANGED <<hpc, image, raw>>

\* lines 67-70
WriteGraphicControl ==
    /\ Write("gce", GceBlk, "data")
    /\ UNCHANGED <<hpc, image, im, raw>>

\* WriteImageData encoding "image" where the loop variable "im" is meant
WriteImageDataOfImage ==
    /\ Write("data", DataBlk(image), "pull")
    /\ UNCHANGED <<hpc, image, im, raw>>

\* lines 72-74, then back to line 65 for the next frame
WriteImageData ==
    /\ Write("data", DataBlk(im), "pull")
    /\ UNCHANGED <<hpc, image, im, raw>>

\* line 77, and build_animated_gif and get return: the locals are gone
WriteTerminator ==
    /\ Write("trailer", Blk(";"), "returned")
    /\ hpc' = "done"
    /\ image' = None
    /\ im' = None
    /\ raw' = None

WriteStates == {"sig", "lsd", "palette", "appext", "gce", "data", "trailer"}

\* stream.write raises: the exception leaves build_animated_gif and get
WriteFails ==
    /\ hpc = "build"
    /\ epc \in WriteStates
    /\ epc' = "raised"
    /\ hpc' = "raised"
    /\ UNCHANGED <<params, respVars, image, im, raw, gen, gexit, z0s, yielded, poolVars>>

\* -------------------------------------------------------------------- Spec

Next ==
    \/ GetCallGenerate
    \/ GetSetContentType
    \/ GenStart
    \/ Submit
    \/ GenYield
    \/ GenRaise
    \/ GenExhaust
    \/ GenJoined
    \/ SeqYield
    \/ SeqRaise
    \/ SeqExhaust
    \/ CloseGenerator
    \/ WorkerTake
    \/ \E i \in 1..Len(fs) : WorkerFinish(i)
    \/ WorkerExit
    \/ WriteSignature
    \/ WriteScreenDescriptor
    \/ WritePalette
    \/ WriteApplicationExtension
    \/ WriteGraphicControl
    \/ WriteImageData
    \/ WriteTerminator
    \/ WriteFails

Spec == Init /\ [][Next]_vars

\* requests none of whose renders fails
InitLive ==
    /\ start_z0 = 0
    /\ step_z0 \in 1..MaxStep
    /\ end_z0 \in (0 - MaxStep)..MaxEnd
    /\ iterations = 10
    /\ px = Pixel(0, Complex(Fin(0), Fin(0)))
    /\ futures \in BOOLEAN
    /\ bad = {}
    /\ Idle

\* the single control flow of get, build_animated_gif and the generator,
\* with every render and every write succeeding
Control ==
    \/ GetCallGenerate
    \/ GetSetContentType
    \/ GenStart
    \/ Submit
    \/ GenYield
    \/ GenExhaust
    \/ GenJoined
    \/ SeqYield
    \/ SeqExhaust
    \/ WriteSignature
    \/ WriteScreenDescriptor
    \/ WritePalette
    \/ WriteApplicationExtension
    \/ WriteGraphicControl
    \/ WriteImageData
    \/ WriteTerminator

\* the worker threads of the pool
Workers ==
    \/ WorkerTake
    \/ \E i \in 1..Len(fs) : WorkerFinish(i)
    \/ WorkerExit

NextLive == Control \/ Workers

\* the control flow keeps running when it can, and so do the workers
SpecLive ==
    /\ InitLive
    /\ [][NextLive]_vars
    /\ WF_vars(Control)
    /\ WF_vars(Workers)

\* lines 124-136 for requests whose "iterations" is 0 or 1, over short
\* sweeps: int() and float() accept any number, nothing is checked
InitParams ==
    /\ start_z0 = 0
    /\ step_z0 = 1
    /\ end_z0 \in 0..1
    /\ iterations \in 0..1
    /\ px = Pixel(0, Complex(Fin(0), Fin(0)))
    /\ futures \in BOOLEAN
    /\ bad \in {b \in SUBSET (0..1) : \A z \in b : z <= end_z0}
    /\ Idle

SpecParams == InitParams /\ [][Next]_vars

\* --------------------------------------------------------- draw_mandelbrot

\* lines 85-89: the grid point's c, and z set to the seed
KernelSeed ==
    /\ px.pc = "seed"
    /\ px' = [px EXCEPT !.pc = "loop", !.z = Complex(Fin(px.z0), Fin(0))]
    /\ UNCHANGED <<start_z0, end_z0, step_z0, iterations, futures, bad, hpc,
                   respVars, encVars, gen, gexit, z0s, yielded, poolVars>>

\* lines 91-93: one round of z *= z; z += c, with no escape test
KernelIterate ==
    /\ px.pc = "loop"
    /\ px.n < iterations
    /\ px' = [px EXCEPT !.z = CAdd(CMul(px.z, px.z), px.c), !.n = px.n + 1]
    /\ UNCHANGED <<start_z0, end_z0, step_z0, iterations, futures, bad, hpc,
                   respVars, encVars, gen, gexit, z0s, yielded, poolVars>>

\* lines 94-96: the value handed to Image.fromarray, as computed
KernelQuantize ==
    /\ px.pc = "loop"
    /\ px.n >= iterations
    /\ px' = [px EXCEPT !.pc = "done",
                        !.value = Scale(EscapeFloor(iterations, px.z), iterations)]
    /\ UNCHANGED <<start_z0, end_z0, step_z0, iterations, futures, bad, hpc,
                   respVars, encVars, gen, gexit, z0s, yielded, poolVars>>

\* one grid point of one frame, over the seeds, the points of a 3x3 grid on
\* [-1, 1] x [-1, 1] and the iteration counts
InitKernel ==
    /\ start_z0 = 0
    /\ step_z0 = 1
    /\ end_z0 = 0
    /\ iterations \in 0..MaxIter
    /\ \E z0 \in (0 - MaxSeed)..MaxSeed, x \in {0 - 1, 0, 1}, y \in {0 - 1, 0, 1} :
          px = Pixel(z0, Complex(Fin(x), Fin(y)))
    /\ futures = FALSE
    /\ bad = {}
    /\ Idle

NextKernel ==
    \/ KernelSeed
    \/ KernelIterate
    \/ KernelQuantize

SpecKernel == InitKernel /\ [][NextKernel]_vars

\* ------------------------------------------------- reference definitions

\* the frame parameters of the request, line 103
InputZ0s == Arange(start_z0, end_z0 + step_z0, step_z0)

IsPrefix(s, t) ==
    /\ Len(s) <= Len(t)
    /\ \A i \in 1..Len(s) : s[i] = t[i]

\* lines 116-118 as a function: imap evaluates fn seed by seed from seed k
\* on and stops at the first one that raises
RECURSIVE SeqRun(_, _, _)
SeqRun(zs, k, acc) ==
    IF k > Len(zs) THEN [images |-> acc, outcome |-> "stop"]
    ELSE IF zs[k] \in bad THEN [images |-> acc, outcome |-> "error"]
    ELSE SeqRun(zs, k + 1, Append(acc, draw_mandelbrot(zs[k])))

\* lines 65-74 over a whole sequence: one GCE and one data block per frame
RECURSIVE FrameRecords(_)
FrameRecords(zs) ==
    IF zs = <<>> THEN <<>>
    ELSE <<GceBlk, DataBlk(convert(draw_mandelbrot(Head(zs))))>>
             \o FrameRecords(Tail(zs))

\* lines 48-77 over a whole non-empty sequence
CompleteStream(zs) ==
    <<Blk("GIF89a"), Blk("LSD"),
      [blk |-> "GCT", im |-> convert(draw_mandelbrot(Head(zs)))],
      AppExtBlk>>
        \o FrameRecords(zs) \o <<Blk(";")>>

HasTrailer == \E i \in 1..Len(out) : out[i] = Blk(";")

\* ------------------------------------------------------------------ claims

\* C1: whatever order the workers complete in, the k-th image yielded is the
\* render of the k-th parameter, and a generator that ends without failure
\* has yielded exactly one image per parameter.
C1_InputOrder ==
    /\ Len(yielded) <= Len(z0s)
    /\ \A k \in 1..Len(yielded) : yielded[k] = draw_mandelbrot(z0s[k])
    /\ gexit = "stop" => Len(yielded) = Len(InputZ0s) /\ z0s = InputZ0s

\* a later frame finished while the due one is still being rendered, after
\* at least one frame was delivered, with the pool saturated
C1_Witness ==
    /\ futures
    /\ Len(fs) > max_workers
    /\ Len(yielded) >= 1
    /\ Len(yielded) < Len(fs)
    /\ fs[Len(yielded) + 1].state = "RUNNING"
    /\ \E j \in 1..Len(fs) : j > Len(yielded) + 1 /\ fs[j].state = "FINISHED"

\* C2: the thread-pool path and the sequential path are observably the same:
\* on either path the images yielded are, in order, those the sequential
\* evaluation of the parameters gives, and the generator ends the same way
\* (exhausted, or failed at the same position).
C2_SameAsSequential ==
    LET seq == SeqRun(InputZ0s, 1, <<>>)
    IN /\ IsPrefix(yielded, seq.images)
       /\ (gen = "finished" /\ gexit \in {"stop", "error"})
             => yielded = seq.images /\ gexit = seq.outcome

\* the pool path ended with a failure after two frames, a later frame done
C2_Witness ==
    /\ futures
    /\ gen = "finished"
    /\ gexit = "error"
    /\ Len(yielded) >= 2
    /\ \E j \in 1..Len(fs) : j > Len(yielded) + 1 /\ fs[j].state = "FINISHED"

\* C3: the frames submitted to the pool and not yet delivered are at most
\* max_workers beyond the one the consumer is waiting on.
C3_Backpressure == Len(fs) - Len(yielded) <= max_workers + 1

\* C4: a failing render of frame k surfaces exactly at position k: the frames
\* before it were yielded in order, the failure is that of the first failing
\* parameter and not of a later one whose worker failed earlier, and nothing
\* is yielded once the failure has surfaced.
C4_FailureAtPosition ==
    /\ [](gexit = "error" =>
            /\ Len(yielded) < Len(z0s)
            /\ z0s[Len(yielded) + 1] \in bad
            /\ \A k \in 1..Len(yielded) :
                  z0s[k] \notin bad /\ yielded[k] = draw_mandelbrot(z0s[k]))
    /\ [][gexit = "error" => yielded' = yielded]_vars
    /\ [][(gexit # "error" /\ gexit' = "error") => epc = "pull"]_vars

\* the failure of frame k has reached the consumer after frames were
\* delivered, while the worker of a later frame had failed as well
C4_Witness ==
    /\ futures
    /\ gexit = "error"
    /\ epc = "raised"
    /\ Len(yielded) >= 1
    /\ \E j \in 1..Len(fs) : j > Len(yielded) + 1 /\ fs[j].exc

\* C5: once the generator has ended (exhausted, failed, or closed after the
\* consumer stopped pulling) its pool is shut down, no worker thread is
\* alive and no work item is queued or running.
C5_PoolTornDown ==
    gen = "finished" =>
        /\ futures => executor = "shutdown"
        /\ threads = 0
        /\ Running = {}
        /\ qhead > Len(fs)
        /\ \A i \in 1..Len(fs) : fs[i].state \in {"FINISHED", "CANCELLED"}

\* the generator was closed after the consumer stopped pulling, with work
\* still outstanding that was cancelled
C5_Witness ==
    /\ futures
    /\ gen = "finished"
    /\ gexit = "closed"
    /\ Len(fs) > max_workers
    /\ \E i \in 1..Len(fs) : fs[i].state = "CANCELLED"

\* C6: the blocks are written in the order signature, screen descriptor,
\* colour table, loop extension, then per frame a GCE immediately followed
\* by that frame's data, then the trailer: the stream is at all times a
\* prefix of that sequence and is exactly it when the encoder returns.
C6_BlockOrder ==
    InputZ0s # <<>> =>
        /\ IsPrefix(out, CompleteStream(InputZ0s))
        /\ epc = "returned" => out = CompleteStream(InputZ0s)

\* the encoder returned after three or more frames rendered by the pool
C6_Witness ==
    /\ futures
    /\ epc = "returned"
    /\ Len(z0s) >= 3
    /\ HasTrailer

\* C7: with an empty frame sequence build_animated_gif raises and no byte
\* has been written.
C7_EmptyFails ==
    InputZ0s = <<>> =>
        /\ out = <<>>
        /\ epc \in {"idle", "pull", "raised"}
        /\ gen = "finished" => epc = "raised" /\ hpc = "raised"

\* the first pull of an empty sequence has raised
C7_Witness ==
    /\ InputZ0s = <<>>
    /\ gen = "finished"
    /\ gexit = "stop"
    /\ epc = "raised"

\* C8: when pulling a frame fails the error leaves build_animated_gif, no
\* block is written after the failure and the trailer is never written.
C8_AbortOnFailure ==
    /\ []((gexit = "error" /\ gen = "finished") =>
            epc = "raised" /\ hpc = "raised")
    /\ [](gexit = "error" => ~HasTrailer)
    /\ [][gexit = "error" => out' = out]_vars

\* a pull failed after the header and a frame record had been written
C8_Witness ==
    /\ gexit = "error"
    /\ epc = "raised"
    /\ Len(out) >= 6

\* C9: when get has ended, either the complete stream is in the response, or
\* an error was raised with no image/gif declared and nothing written.
C9_AllOrNothing ==
    /\ hpc = "done" => out = CompleteStream(InputZ0s)
    /\ hpc = "raised" => contentType # "image/gif" /\ out = <<>>

\* the frames the encoder's locals refer to
HeldFrames == {x.z0 : x \in {image, im, raw} \ {None}}

\* C10: the encoder holds at most one frame at any time.
C10_OneFrame == Cardinality(HeldFrames) <= 1

\* C11: the seeds generated are exactly start_z0, start_z0 + step_z0, ...
\* up to end_z0: none is beyond end_z0, and end_z0 is one of them when it
\* lies a whole number of steps from start_z0 (stated for end_z0 >= start_z0,
\* where the interval is not empty).
C11_Sweep ==
    (gen \notin {"none", "created"} /\ end_z0 >= start_z0) =>
        /\ \A k \in 1..Len(z0s) :
              z0s[k] = start_z0 + (k - 1) * step_z0 /\ z0s[k] <= end_z0
        /\ \A i \in 0..(MaxEnd + MaxStep) :
              start_z0 + i * step_z0 <= end_z0
                  => \E k \in 1..Len(z0s) : z0s[k] = start_z0 + i * step_z0
        /\ (end_z0 >= start_z0 /\ (end_z0 - start_z0) % step_z0 = 0)
              => \E k \in 1..Len(z0s) : z0s[k] = end_z0

\* C12: for valid parameters every value of the raster draw_mandelbrot
\* returns is a palette index in [0, 255]: never an infinity, never NaN,
\* never below 0 or above 255.
C12_IndexInRange ==
    (px.pc = "done" /\ iterations >= 1) =>
        /\ px.value.k = "fin"
        /\ 0 <= px.value.num
        /\ px.value.num <= 255 * px.value.den

\* C13: with a non-positive "iterations" the request is rejected before any
\* frame render is started and before any byte is written: no work item runs,
\* no frame is yielded, nothing is written and get does not succeed.
C13_InvalidRejected ==
    iterations < 1 =>
        /\ \A i \in 1..Len(fs) : fs[i].state \in {"PENDING", "CANCELLED"}
        /\ yielded = <<>>
        /\ out = <<>>
        /\ hpc # "done"

\* C14: every submission of a frame render happens while the executor is
\* open: whenever executor.map is submitting, and whenever a work item is
\* added, the pool has not been shut down, whatever the consumer does.
C14_SubmitWhileOpen ==
    /\ [](gen = "submitting" => executor = "open")
    /\ [][Len(fs') > Len(fs) => (executor = "open" /\ executor' = "open")]_vars

\* the pool is saturated and executor.map is still submitting
C14_Witness ==
    /\ gen = "submitting"
    /\ executor = "open"
    /\ Len(fs) >= max_workers
    /\ Running # {}

\* the positions in the stream of the blocks of one kind
BlocksOf(name) == {i \in 1..Len(out) : out[i].blk = name}

\* C15: when build_animated_gif returns after N >= 1 frames it has written
\* exactly N GCE blocks and N data blocks, each GCE directly followed by the
\* data of one frame, frame k's data being the k-th, so that the first frame
\* is written once and first; one frame gives one pair.
C15_OnePairPerFrame ==
    epc = "returned" =>
        /\ Len(z0s) >= 1
        /\ Cardinality(BlocksOf("GCE")) = Len(z0s)
        /\ Cardinality(BlocksOf("DATA")) = Len(z0s)
        /\ \A i \in BlocksOf("GCE") : i + 1 \in BlocksOf("DATA")
        /\ \A k \in 1..Len(z0s) :
              /\ out[4 + 2 * k] = DataBlk(convert(draw_mandelbrot(z0s[k])))
              /\ Cardinality({i \in BlocksOf("DATA") : out[i].im.z0 = z0s[k]}) = 1

\* a single-frame animation was encoded completely
C15_Witness ==
    /\ epc = "returned"
    /\ Len(z0s) = 1
    /\ Cardinality(BlocksOf("DATA")) = 1

\* the fields of a GCE's packed byte: bits 2-4, bit 1 and bit 0
Disposal(b) == (b \div 4) % 8
UserInput(b) == (b \div 2) % 2
Transparency(b) == b % 2

\* C17 as stated: the packed byte of every GCE written encodes disposal
\* method 0 and transparency flag 0.
C17_NoDisposal ==
    \A i \in BlocksOf("GCE") :
        Disposal(out[i].bytes[4]) = 0 /\ Transparency(out[i].bytes[4]) = 0

\* C17 as amended: every GCE written is the block introducer 21 F9 04, a
\* packed byte with disposal method 2 (restore to background), no user input
\* and transparency flag 0, the delay of 10 centiseconds, and 00 00.
C17_DisposalTwo ==
    \A i \in BlocksOf("GCE") :
        /\ Len(out[i].bytes) = 8
        /\ SubSeq(out[i].bytes, 1, 3) = <<33, 249, 4>>
        /\ Disposal(out[i].bytes[4]) = 2
        /\ UserInput(out[i].bytes[4]) = 0
        /\ Transparency(out[i].bytes[4]) = 0
        /\ out[i].bytes[5] + 256 * out[i].bytes[6] = 10
        /\ SubSeq(out[i].bytes, 7, 8) = <<0, 0>>

\* the GCE of a second frame has been written
C17_Witness ==
    /\ Cardinality(BlocksOf("GCE")) >= 2
    /\ epc = "data"

\* C18 as stated: one loop block per animation, a fixed 17-byte sequence of
\* introducer, "NETSCAPE2.0", sub-block length, loop count 0xFFFF, terminator.
C18_SeventeenBytes ==
    /\ Cardinality(BlocksOf("NETSCAPE2.0")) <= 1
    /\ epc = "returned" => Cardinality(BlocksOf("NETSCAPE2.0")) = 1
    /\ \A i \in BlocksOf("NETSCAPE2.0") :
          /\ Len(out[i].bytes) = 17
          /\ SubSeq(out[i].bytes, 4, 14) = Netscape

\* C18 as amended: one loop block per animation, a fixed 19-byte sequence:
\* 21 FF 0B, "NETSCAPE2.0", sub-block length 3 and index 1, loop count
\* 0xFFFF, terminator 0.
C18_NineteenBytes ==
    /\ Cardinality(BlocksOf("NETSCAPE2.0")) <= 1
    /\ epc = "returned" => Cardinality(BlocksOf("NETSCAPE2.0")) = 1
    /\ \A i \in BlocksOf("NETSCAPE2.0") :
          /\ i = 4
          /\ Len(out[i].bytes) = 19
          /\ SubSeq(out[i].bytes, 1, 3) = <<33, 255, 11>>
          /\ SubSeq(out[i].bytes, 4, 14) = Netscape
          /\ SubSeq(out[i].bytes, 15, 16) = <<3, 1>>
          /\ out[i].bytes[17] + 256 * out[i].bytes[18] = 65535
          /\ out[i].bytes[19] = 0

\* the encoder returned with the loop block in the stream
C18_Witness ==
    /\ epc = "returned"
    /\ Cardinality(BlocksOf("NETSCAPE2.0")) = 1
    /\ Len(z0s) >= 2

\* C16 as stated: whenever no render and no write fails and the threads are
\* scheduled fairly, the encoder eventually writes the trailer and returns.
C16_EventuallyReturns == <>(epc = "returned" /\ HasTrailer)

\* C16 as amended: under the same assumptions the encoder always comes to an
\* end and never waits forever for a frame: for a sweep of at least one seed
\* it writes the trailer and returns, for an empty sweep its first pull raises.
C16_EventuallyEnds ==
    /\ InputZ0s # <<>> => <>(epc = "returned" /\ HasTrailer)
    /\ InputZ0s = <<>> => <>(epc = "raised" /\ out = <<>>)

\* the encoder returned from a sweep of more seeds than the pool has threads
C16_Witness ==
    /\ epc = "returned"
    /\ HasTrailer
    /\ futures
    /\ Len(z0s) > max_workers

\* the data blocks written so far: the frame records that are complete
NumData == Cardinality(BlocksOf("DATA"))

\* C19: pulls and writes alternate strictly. Nothing is written before the
\* first frame is pulled; a frame is pulled only when the record (GCE and
\* data) of every frame pulled before is complete, and the pull itself
\* writes nothing; at most one pulled frame is ever without its record.
C19_StrictInterleaving ==
    /\ [](/\ out # <<>> => Len(yielded) >= 1
          /\ NumData <= Len(yielded)
          /\ Len(yielded) <= NumData + 1
          /\ (epc = "pull" /\ hpc = "build") => NumData = Len(yielded))
    /\ [][Len(yielded') > Len(yielded) =>
             /\ epc = "pull"
             /\ NumData = Len(yielded)
             /\ Cardinality(BlocksOf("GCE")) = Len(yielded)
             /\ Len(yielded) = 0 => out = <<>>
             /\ Len(yielded) > 0 => out[Len(out)] = DataBlk(im)
             /\ out' = out]_vars

\* the third frame has been pulled, after the records of the first two
C19_Witness ==
    /\ Len(yielded) = 3
    /\ epc = "gce"
    /\ NumData = 2

\* C20: the call in get starts nothing; the pool is created, the first
\* render is submitted and the first frame is rendered only inside the
\* encoder's first pull, with the Content-Type set and no byte written.
C20_LazyStart ==
    /\ [](gen = "created" =>
             /\ executor = "none" /\ threads = 0
             /\ fs = <<>> /\ z0s = <<>> /\ yielded = <<>>)
    /\ [](hpc \in {"get", "header"} =>
             /\ executor = "none" /\ threads = 0
             /\ fs = <<>> /\ yielded = <<>>)
    /\ [][(\/ executor = "none" /\ executor' # "none"
           \/ fs = <<>> /\ fs' # <<>>
           \/ yielded = <<>> /\ yielded' # <<>>) =>
             /\ epc = "pull"
             /\ image = None
             /\ contentType = "image/gif"
             /\ out = <<>>]_vars

\* the first render is submitted: the pool is open, the header set, and
\* nothing is written yet
C20_Witness ==
    /\ executor = "open"
    /\ Len(fs) = 1
    /\ gen = "submitting"
    /\ contentType = "image/gif"
    /\ out = <<>>

====
